---- MODULE Spec2Model ----
(***************************************************************************)
(* A model of the scene-graph scripts of justinchang1124/helices:         *)
(* chang_techniques.py (copyRec, coloRec, makeMolecule, the complement    *)
(* functions, makeSkeleton, clearChildren, makeHelix) and helix_maker.py  *)
(* (the first version of the complement functions).                       *)
(*                                                                         *)
(* The host scene graph is modelled as far as the scripts use it:         *)
(*   - bpy.data.objects is the function objs from object ids to records;  *)
(*     obj.children is derived from the parent pointers of ALL objects,   *)
(*     as the host computes it;                                           *)
(*   - object names are unique in the whole file: a name is a pair        *)
(*     [base, n] that prints as base (n = 0) or base.00n, and creating or *)
(*     renaming an object takes the first free n for its base;            *)
(*   - the mesh data blocks in use are the function mats from data ids to *)
(*     their material lists; an EMPTY has no data (0);                    *)
(*   - an object id is a model-level handle: a new object takes the first *)
(*     id not in use;                                                     *)
(*   - angles are whole degrees (PI = 180), lengths are whole numbers,    *)
(*     and Sin/Cos are exact on the multiples of 90 degrees.              *)
(***************************************************************************)
EXTENDS Integers, Sequences, FiniteSets, TLC

VARIABLES objs,     \* bpy.data.objects: id -> object record
          mats,     \* bpy.data.meshes: data id -> sequence of materials
          colls,    \* bpy.data.collections: set of collection names
          cursor,   \* bpy.context.scene.cursor.location
          last,     \* the last call: operation, arguments, outcome
          comp,     \* the last evaluation of a complement function
          active,   \* bpy.context.view_layer.objects.active (0 if None)
          frame,    \* bpy.context.scene.frame_current
          anim      \* animation_data: id -> (frame -> rotation keyframe)

vars == <<objs, mats, colls, cursor, last, comp, active, frame, anim>>

(***************************************************************************)
(* Bounds of the exploration.                                              *)
(***************************************************************************)
MaxObjs == 17      \* no call that returns may leave more than MaxObjs objects
MaxRungs == 2      \* makeSkeleton is called with 1..MaxRungs rungs
MaxApply == 2      \* a complement function is iterated at most MaxApply times
MaxCopyFrom == 5   \* copyRec is called directly in scenes of at most MaxCopyFrom objects
MaxKeys == 2       \* rotateBond and coilCollection add at most MaxKeys keyframes per call
MaxTurn == 20      \* no call may leave a z-rotation beyond MaxTurn degrees

\* depth at which the interpreter stops a runaway recursion (1000 by default in
\* CPython), scaled down; larger than the depth of any tree the scenes hold
RecursionLimit == 8

\* math.pi, in degrees
PI == 180

None == "None"

\* None where a location is expected
NoLoc == <<>>

\* None where a list is expected
NoList == [none |-> TRUE, list |-> <<>>]

(***************************************************************************)
(* Names                                                                   *)
(***************************************************************************)
Nm(s) == [base |-> s, n |-> 0]

\* '{}_{}'.format(a, i)
Fmt(a, i) == a \o "_" \o ToString(i)

\* 'Rotate_{}'.format('{}_{}'.format(c, i))
RotateName(c, i) == "Rotate_" \o Fmt(c, i)

\* the name the host gives an object asking for base: base itself when free,
\* else base with the first free numeric suffix
UniqueName(base, taken) ==
    LET free == {k \in 0..Cardinality(taken) : [base |-> base, n |-> k] \notin taken}
    IN  [base |-> base, n |-> CHOOSE k \in free : \A j \in free : k <= j]

NamesOf(os) == {os[i].name : i \in DOMAIN os}

(***************************************************************************)
(* Trigonometry on whole degrees (exact on multiples of 90)                *)
(***************************************************************************)
Norm(d) == d % 360

Sin(d) == CASE Norm(d) = 0 -> 0
            [] Norm(d) = 90 -> 1
            [] Norm(d) = 180 -> 0
            [] Norm(d) = 270 -> -1

Cos(d) == Sin(d + 90)

(***************************************************************************)
(* Scene graph primitives.  A scene value st is a record                   *)
(* [objs, mats, raised, ret]: the objects, the data blocks, the exception  *)
(* raised or error reported so far (None if none) and the value returned   *)
(* by the last primitive.                                                  *)
(***************************************************************************)
Scene(os, ms) == [objs |-> os, mats |-> ms, raised |-> None, ret |-> 0]

\* the first id not in use
FreshId(os) == CHOOSE k \in 1..(Cardinality(DOMAIN os) + 1) :
                  /\ k \notin DOMAIN os
                  /\ \A j \in 1..(k - 1) : j \in DOMAIN os

\* obj.children: every object whose parent is p
Children(os, p) == {i \in DOMAIN os : os[i].parent = p}

RECURSIVE SortedSeq(_)
SortedSeq(S) ==
    IF S = {} THEN <<>>
    ELSE LET m == CHOOSE x \in S : \A y \in S : x <= y
         IN  <<m>> \o SortedSeq(S \ {m})

\* obj.children as the sequence a for loop walks (creation order)
ChildSeq(os, p) == SortedSeq(Children(os, p))

RECURSIVE Subtree(_, _)
Subtree(os, p) ==
    {p} \cup UNION {Subtree(os, c) : c \in Children(os, p)}

\* collection.objects[name]: the object of a collection with that name, 0 if none
Lookup(os, coll, s) ==
    LET hits == {i \in DOMAIN os : os[i].coll = coll /\ os[i].name = Nm(s)}
    IN  IF hits = {} THEN 0 ELSE CHOOSE i \in hits : TRUE

\* the names of a collection's objects (object_names in the scripts)
ObjectNames(os, coll) == {os[i].name : i \in {j \in DOMAIN os : os[j].coll = coll}}

Extend(f, k, v) == [x \in DOMAIN f \cup {k} |-> IF x = k THEN v ELSE f[x]]

\* bpy.data.objects.new("empty", None)
NewEmpty(st) ==
    LET o == [name |-> UniqueName("empty", NamesOf(st.objs)), type |-> "EMPTY",
              data |-> 0, parent |-> 0, loc |-> <<0, 0, 0>>, rot |-> <<0, 0, 0>>,
              coll |-> "", sel |-> FALSE, dsize |-> <<1, 1>>, dtype |-> "PLAIN_AXES"]
    IN  [st EXCEPT !.objs = Extend(st.objs, FreshId(st.objs), o),
                   !.ret = FreshId(st.objs)]

\* obj.name = s
Rename(st, id, s) ==
    LET others == {st.objs[i].name : i \in DOMAIN st.objs \ {id}}
    IN  [st EXCEPT !.objs[id].name = UniqueName(s, others)]

(***************************************************************************)
(* copyRec, seleRec, coloRec, deselect                                     *)
(***************************************************************************)
\* copy = obj.copy(), sharing the data block of obj
CopyShared(st, obj) ==
    [st EXCEPT !.objs = Extend(st.objs, FreshId(st.objs),
                               [st.objs[obj] EXCEPT
                                   !.name = UniqueName(st.objs[obj].name.base,
                                                       NamesOf(st.objs)),
                                   !.coll = "", !.sel = FALSE]),
               !.ret = FreshId(st.objs)]

\* if not obj.data == None: copy.data = obj.data.copy(), s1.ret being the copy
CopyData(s1, obj) ==
    IF s1.objs[obj].data = 0 THEN s1
    ELSE [s1 EXCEPT !.objs[s1.ret].data = s1.ret,
                    !.mats = Extend(s1.mats, s1.ret, s1.mats[s1.objs[obj].data])]

\* a copy that keeps using the data block of the original
CopyObjShared(st, obj) == CopyShared(st, obj)

\* copy = obj.copy() with its own copy of the data block
CopyObj(st, obj) == CopyData(CopyShared(st, obj), obj)

\* molCol() when the collection argument is None
CollOrMol(collection) == IF collection = None THEN "Molecules" ELSE collection

\* copy.parent = parent; collection.objects.link(copy)
LinkCopy(s1, parent, collection) ==
    [s1 EXCEPT !.objs[s1.ret].parent = parent,
               !.objs[s1.ret].coll = CollOrMol(collection)]

RECURSIVE CopyRec(_, _, _, _, _)
RECURSIVE CopyKids(_, _, _, _, _, _)

\* copyRec(child, copy, collection) for the children kids[k..]
CopyKids(st, kids, k, copy, collection, d) ==
    IF k > Len(kids) \/ st.raised # None THEN st
    ELSE CopyKids(CopyRec(st, kids[k], copy, collection, d + 1), kids, k + 1,
                  copy, collection, d)

\* for child in obj.children: obj.children as it is once the copy is linked
CopyChildren(s2, obj, collection, d) ==
    [CopyKids(s2, ChildSeq(s2.objs, obj), 1, s2.ret, collection, d) EXCEPT !.ret = s2.ret]

\* copyRec(obj, parent, collection) entered at recursion depth d; ret is the copy
CopyRec(st, obj, parent, collection, d) ==
    IF d > RecursionLimit THEN [st EXCEPT !.raised = "RecursionError"]
    ELSE CopyChildren(LinkCopy(CopyObj(st, obj), parent, collection), obj, collection, d)

\* the data blocks coloRec(obj, ...) touches: those of the non-empties of the subtree
ColoredData(os, obj) ==
    {os[i].data : i \in {j \in Subtree(os, obj) : os[j].type # "EMPTY"}}

\* coloRec(obj, material, clearExtra)
ColoRecSt(st, obj, material, clearExtra) ==
    [st EXCEPT !.mats = [dd \in DOMAIN st.mats |->
        IF dd \in ColoredData(st.objs, obj)
        THEN (IF clearExtra THEN <<material>> ELSE Append(st.mats[dd], material))
        ELSE st.mats[dd]]]

(***************************************************************************)
(* The complement functions.  A Python function that falls off its end     *)
(* returns None.                                                           *)
(***************************************************************************)
\* complementDNA with the suffix of one answer mistyped
complementDNATypo(name) ==
    CASE name = "A1" -> "T1" [] name = "T1" -> "A1"
      [] name = "G1" -> "C1" [] name = "C1" -> "G1"
      [] name = "A2" -> "T2" [] name = "T2" -> "A2"
      [] name = "G2" -> "C2" [] name = "C2" -> "G2"
      [] name = "A3" -> "T3" [] name = "T3" -> "A3"
      [] name = "G3" -> "C3" [] name = "C3" -> "G2"
      [] OTHER -> None

\* chang_techniques.py
complementDNA(name) ==
    CASE name = "A1" -> "T1" [] name = "T1" -> "A1"
      [] name = "G1" -> "C1" [] name = "C1" -> "G1"
      [] name = "A2" -> "T2" [] name = "T2" -> "A2"
      [] name = "G2" -> "C2" [] name = "C2" -> "G2"
      [] name = "A3" -> "T3" [] name = "T3" -> "A3"
      [] name = "G3" -> "C3" [] name = "C3" -> "G3"
      [] OTHER -> None

complementRNA(name) ==
    CASE name = "a1" -> "U1" [] name = "U1" -> "a1"
      [] name = "g1" -> "c1" [] name = "c1" -> "g1"
      [] name = "a2" -> "U2" [] name = "U2" -> "a2"
      [] name = "g2" -> "c2" [] name = "c2" -> "g2"
      [] name = "a3" -> "U3" [] name = "U3" -> "a3"
      [] name = "g3" -> "c3" [] name = "c3" -> "g3"
      [] OTHER -> None

identity(x) == x

\* helix_maker.py
hm_complementDNA(name) ==
    IF name = "A" THEN "T"
    ELSE IF name = "T" THEN "A"
    ELSE IF name = "G" THEN "C"
    ELSE "G"

hm_complementRNA(name) ==
    IF name = "A" THEN "U_C"
    ELSE IF name = "U" THEN "A_C"
    ELSE IF name = "G" THEN "C"
    ELSE "G"

\* comp_fun(name) for a complement function given by its name
ApplyComp(f, name) ==
    CASE f = "complementDNA" -> complementDNA(name)
      [] f = "complementRNA" -> complementRNA(name)
      [] f = "identity" -> identity(name)
      [] f = "hm_complementDNA" -> hm_complementDNA(name)
      [] f = "hm_complementRNA" -> hm_complementRNA(name)

(***************************************************************************)
(* The inputs the operations are called with                               *)
(***************************************************************************)
\* names of skeleton collections
CollNames == {"H"}

\* materials (bpy.data.materials)
Materials == {"Ribose"}

\* location arguments: None (the 3D cursor) or an explicit point
Locations == {NoLoc, <<1, 2, 3>>}

\* attachments [group_name, distance, down-euler, z-euler, bond-rotate-angle]
AttT1 == <<"T1", 3, 90, 0, 0>>
AttT1b == <<"T1", 3, 90, 120, 0>>
AttG1 == <<"G1", 2, 60, -120, 30>>
AttA1 == <<"A1", 2, 60, 0, 0>>
AttU9 == <<"U9", 1, 0, 0, 0>>

\* the calls of makeMolecule: [name, parent_name, attachments, location];
\* "U9" never names an object
MolCalls == { <<"G1", "A1", <<>>, <<1, 2, 3>>>>,
              <<"G1", "A1", <<AttT1>>, NoLoc>>,
              <<"G1", "a1", <<AttT1b, AttG1>>, <<1, 2, 3>>>>,
              <<"C1", "G1", <<AttT1>>, <<1, 2, 3>>>>,
              <<"C1", "a1", <<AttG1>>, NoLoc>>,
              <<"C1", "A1", <<AttA1, AttU9>>, NoLoc>>,
              <<"C1", "U9", <<AttT1>>, NoLoc>>,
              <<"G1", "U9", <<>>, <<1, 2, 3>>>> }

\* reference sequences of makeHelix
RefSeqs == { <<"A1">>, <<"T1", "A1">>, <<"a1", "T1">>, <<"A1", "U9">>,
             <<"A1", "T1", "A1">> }

CompFuns == {"complementDNA", "complementRNA", "identity"}

\* [radius, tilt, disp] of makeHelix
HelixGeoms == { <<2, 0, 90>>, <<1, 90, 180>> }

\* [height, base] of makeSkeleton
SkelGeoms == { <<8, 36>>, <<8, -36>> }

\* arguments of the complement functions
CompArgs == {"A1", "T1", "G1", "C1", "A2", "T2", "G2", "C2", "A3", "T3", "G3", "C3",
             "a1", "U1", "g1", "c1", "a2", "U2", "g2", "c2", "a3", "U3", "g3", "c3",
             "A", "T", "G", "C", "U", "U_C", "A_C", None}

AllCompFuns == CompFuns \cup {"hm_complementDNA", "hm_complementRNA"}

(***************************************************************************)
(* Initial scene: the collection "Molecules" holds the finished reference  *)
(* residues A1, T1 (joined meshes) and a1, a mesh with an empty and a mesh *)
(* below it (an unjoined molecule).                                        *)
(***************************************************************************)
Mesh(s, d, p, l) ==
    [name |-> Nm(s), type |-> "MESH", data |-> d, parent |-> p, loc |-> l,
     rot |-> <<0, 0, 0>>, coll |-> "Molecules", sel |-> FALSE,
     dsize |-> <<1, 1>>, dtype |-> "PLAIN_AXES"]

InitObjs ==
    (1 :> Mesh("A1", 1, 0, <<0, 48, 0>>)) @@
    (2 :> Mesh("T1", 2, 0, <<0, 52, 0>>)) @@
    (3 :> Mesh("a1", 3, 0, <<0, 56, 0>>)) @@
    (4 :> [Mesh("EMPTY_a1_0", 0, 3, <<0, 0, 0>>) EXCEPT !.type = "EMPTY",
                                                         !.rot = <<0, 90, 0>>,
                                                         !.dtype = "SINGLE_ARROW"]) @@
    (5 :> Mesh("a1_0", 5, 4, <<0, 0, 3>>))

InitMats == (1 :> <<"White">>) @@ (2 :> <<"White">>) @@ (3 :> <<"White">>) @@ (5 :> <<"White">>)

\* what a call remembers of the calls before it (see MakeHelix, ClearChildren)
NoHist == [args |-> <<>>, decor |-> <<>>]

NoCall == [op |-> "none", args |-> <<>>, ret |-> None, obj |-> 0, hist |-> NoHist]

NoComp == [fun |-> None, arg |-> None, val |-> None, n |-> 0]

InitScene ==
    /\ objs = InitObjs
    /\ mats = InitMats
    /\ colls = {"Molecules", "Collection"}
    /\ cursor = <<0, 0, 0>>
    /\ last = NoCall
    /\ active = 0
    /\ frame = 1
    /\ anim = <<>>

Init == InitScene /\ comp = NoComp

\* the variables of the scene after a call that left the scene st
SceneIs(st) ==
    /\ objs' = st.objs
    /\ mats' = st.mats

\* the call just made: its outcome ret, the object it returned (0 if none) and
\* what it remembers
CalledHist(op, args, ret, obj, hist) ==
    last' = [op |-> op, args |-> args, ret |-> ret, obj |-> obj, hist |-> hist]

CalledObj(op, args, ret, obj) == CalledHist(op, args, ret, obj, NoHist)

Called(op, args, ret) == CalledObj(op, args, ret, 0)

Now == Scene(objs, mats)

\* the outcome of a call that ended in the scene st
Outcome(st) == IF st.raised = None THEN "ok" ELSE st.raised

\* a call that returns may not leave more than MaxObjs objects
Fits(st) == Cardinality(DOMAIN st.objs) <= MaxObjs

(***************************************************************************)
(* makeSkeleton                                                            *)
(***************************************************************************)
\* the reference empty of rung i, made from the new empty of scene s1
ReferenceEmpty(s1, c, i, height, location) ==
    [Rename([s1 EXCEPT !.objs[s1.ret].coll = c], s1.ret, Fmt(c, i))
       EXCEPT !.objs[s1.ret].loc = location,
              !.objs[s1.ret].dsize = <<height, 4>>,
              !.objs[s1.ret].dtype = "PLAIN_AXES"]

\* a rotator that is not turned by its index
RotatorFlat(s4, o, c, i, height, base) ==
    [Rename([s4 EXCEPT !.objs[s4.ret].coll = c], s4.ret, RotateName(c, i))
       EXCEPT !.objs[s4.ret].loc = <<0, 0, 0>>,
              !.objs[s4.ret].dsize = <<height, 8>>,
              !.objs[s4.ret].dtype = "CUBE",
              !.objs[s4.ret].rot[3] = base,
              !.objs[s4.ret].parent = o]

\* the rotator of rung i below the reference empty o, made from the new empty
\* of scene s4
Rotator(s4, o, c, i, height, base) ==
    [Rename([s4 EXCEPT !.objs[s4.ret].coll = c], s4.ret, RotateName(c, i))
       EXCEPT !.objs[s4.ret].loc = <<0, 0, 0>>,
              !.objs[s4.ret].dsize = <<height, 8>>,
              !.objs[s4.ret].dtype = "CUBE",
              !.objs[s4.ret].rot[3] = base * i,
              !.objs[s4.ret].parent = o]

\* the second half of a turn: s3.ret is the reference empty
RotatorBelow(s3, c, i, height, base) ==
    Rotator(NewEmpty(s3), s3.ret, c, i, height, base)

\* one turn of the loop of makeSkeleton: the reference empty and its rotator
SkelStep(st, c, i, height, base, location) ==
    RotatorBelow(ReferenceEmpty(NewEmpty(st), c, i, height, location), c, i, height, base)

RECURSIVE SkelLoop(_, _, _, _, _, _, _)
\* turns i..num_objects-1 of the loop of makeSkeleton; location is the list the
\* loop raises by height at the end of each turn
SkelLoop(st, c, i, num, height, base, location) ==
    IF i >= num THEN [st |-> st, location |-> location]
    ELSE SkelLoop(SkelStep(st, c, i, height, base, location), c, i + 1, num, height,
                  base, [location EXCEPT ![3] = location[3] + height])

SkelExists == "Error: A collection with the same name already exists."

\* a check that lets every name pass
SkeletonCheckNone(collect_name, collections) == "ok"

\* the search of makeSkeleton for a collection of the same name
SkeletonCheck(collect_name, collections) ==
    IF \E collection \in collections : collect_name = collection THEN SkelExists ELSE "ok"

\* the end of a makeSkeleton whose loop ended in r
SkeletonDone(r, args) ==
    /\ Fits(r.st)
    /\ SceneIs(r.st)
    /\ colls' = colls \cup {args[1]}
    /\ cursor' = IF args[5] = NoLoc THEN r.location ELSE cursor
    /\ Called("makeSkeleton", args, "ok")
    /\ UNCHANGED <<comp, active, frame, anim>>

\* args[6] is the location the call starts from
SkeletonCall(args, check) ==
    IF check # "ok"
    THEN /\ Called("makeSkeleton", args, check)
         /\ UNCHANGED <<objs, mats, colls, cursor, comp, active, frame, anim>>
    ELSE SkeletonDone(SkelLoop(Now, args[1], 0, args[2], args[3], args[4], args[6]), args)

MakeSkeleton(c, num, height, base, location) ==
    SkeletonCall(<<c, num, height, base, location,
                   IF location = NoLoc THEN cursor ELSE location>>,
                 SkeletonCheck(c, colls))

(***************************************************************************)
(* makeMolecule (objects is molCol().objects, its default)                 *)
(***************************************************************************)
MolExists == "Error: A molecule with the same name already exists"
NoParent == "Error: No parent group can be found."

\* a check that forgets the molecule's own name
NameCheckParentOnly(name, parent_name, object_names) ==
    IF Nm(parent_name) \notin object_names THEN NoParent ELSE "ok"

\* "checking object names" in makeMolecule
NameCheck(name, parent_name, object_names) ==
    IF Nm(name) \in object_names THEN MolExists
    ELSE IF Nm(parent_name) \notin object_names THEN NoParent
    ELSE "ok"

\* an attachment that is left beside its linking empty instead of below it
PlaceAttachmentLoose(st, new_obj, o, parent_obj, att, format_name) ==
    LET s6 == [st EXCEPT !.objs[new_obj].loc = <<0, 0, att[2]>>,
                         !.objs[new_obj].rot = <<PI, 0, 0>>]
        s7 == Rename(s6, new_obj, format_name)
    IN  [s7 EXCEPT !.objs[new_obj].rot[3] = att[5],
                   !.objs[new_obj].parent = parent_obj,
                   !.objs[o].parent = parent_obj]

\* the placement of the copied attachment new_obj below the linking empty o
PlaceAttachment(st, new_obj, o, parent_obj, att, format_name) ==
    LET s6 == [st EXCEPT !.objs[new_obj].loc = <<0, 0, att[2]>>,
                         !.objs[new_obj].rot = <<PI, 0, 0>>]
        s7 == Rename(s6, new_obj, format_name)
    IN  [s7 EXCEPT !.objs[new_obj].rot[3] = att[5],
                   !.objs[new_obj].parent = o,
                   !.objs[o].parent = parent_obj]

\* the linking empty of attachment att, made from the new empty of scene s1
LinkingEmpty(s1, att, format_name) ==
    [Rename([s1 EXCEPT !.objs[s1.ret].coll = "Molecules",
                       !.objs[s1.ret].dsize = <<3 * att[2], 1>>,
                       !.objs[s1.ret].dtype = "SINGLE_ARROW"],
            s1.ret, "EMPTY_" \o format_name)
       EXCEPT !.objs[s1.ret].rot[2] = att[3], !.objs[s1.ret].rot[3] = att[4]]

\* new_obj = copyRec(objects[att[0]]) placed below the linking empty o
PlaceAttachmentCopy(s5, o, parent_obj, att, format_name) ==
    PlaceAttachment(s5, s5.ret, o, parent_obj, att, format_name)

RECURSIVE AttachLoop(_, _, _, _, _)

\* turn i of the attachment loop once its linking empty s4.ret exists
AttachCopy(s4, name, attachments, parent_obj, i) ==
    IF Lookup(s4.objs, "Molecules", attachments[i + 1][1]) = 0
    THEN [s4 EXCEPT !.raised = "KeyError"]
    ELSE AttachLoop(PlaceAttachmentCopy(
                        CopyRec(s4, Lookup(s4.objs, "Molecules", attachments[i + 1][1]),
                                0, None, 1),
                        s4.ret, parent_obj, attachments[i + 1], Fmt(name, i)),
                    name, attachments, parent_obj, i + 1)

\* turns i.. of the attachment loop of makeMolecule (i counts from 0)
AttachLoop(st, name, attachments, parent_obj, i) ==
    IF i >= Len(attachments) THEN st
    ELSE AttachCopy(LinkingEmpty(NewEmpty(st), attachments[i + 1], Fmt(name, i)),
                    name, attachments, parent_obj, i)

\* parent_obj = copyRec(parent_ref_obj) named and placed, then the attachments;
\* ret is parent_obj
NamedParent(s1, name, attachments, location) ==
    [AttachLoop(Rename([s1 EXCEPT !.objs[s1.ret].loc = location], s1.ret, name),
                name, attachments, s1.ret, 0)
       EXCEPT !.ret = s1.ret]

\* the body of makeMolecule after the name checks
MoleculeBody(st, name, parent_name, attachments, location) ==
    NamedParent(CopyRec(st, Lookup(st.objs, "Molecules", parent_name), 0, None, 1),
                name, attachments, location)

\* the end of a makeMolecule that left the scene st
MoleculeDone(st, args) ==
    /\ Fits(st)
    /\ SceneIs(st)
    /\ CalledObj("makeMolecule", args, Outcome(st), IF st.raised = None THEN st.ret ELSE 0)
    /\ UNCHANGED <<colls, cursor, comp, active, frame, anim>>

\* args[4] is the location the molecule is placed at
MoleculeCall(args, check) ==
    IF check # "ok"
    THEN /\ Called("makeMolecule", args, check)
         /\ UNCHANGED <<objs, mats, colls, cursor, comp, active, frame, anim>>
    ELSE MoleculeDone(MoleculeBody(Now, args[1], args[2], args[3], args[4]), args)

MakeMolecule(name, parent_name, attachments, location) ==
    MoleculeCall(<<name, parent_name, attachments,
                   IF location = NoLoc THEN cursor ELSE location>>,
                 NameCheck(name, parent_name, ObjectNames(objs, "Molecules")))

(***************************************************************************)
(* getComp, makeHelix (objects is molCol().objects), clearChildren         *)
(***************************************************************************)
\* getComp(reference, comp_fun, object_names): the complement, or None after
\* an unrecognised element
getComp(reference, comp_fun, object_names) ==
    IF \A i \in 1..Len(reference) :
          /\ Nm(reference[i]) \in object_names
          /\ Nm(ApplyComp(comp_fun, reference[i])) \in object_names
    THEN [none |-> FALSE,
          list |-> [i \in 1..Len(reference) |-> ApplyComp(comp_fun, reference[i])]]
    ELSE NoList

Adorned == "Error: Adornment has already occurred."
NoColl == "Error: No collection with this name exists."
NoRung == "Error: Skeleton length does not equal reference sequence length."

\* a reference copy that is never hung on its rung
PlaceReferenceLoose(st, new_ref, rung, rotate_name, radius, tilt) ==
    LET s2 == Rename(st, new_ref, rotate_name \o "R")
    IN  [s2 EXCEPT !.objs[new_ref].rot[2] = -tilt,
                   !.objs[new_ref].rot[3] = -PI,
                   !.objs[new_ref].loc = <<radius, 0, 0>>]

\* the placement of the reference-strand copy new_ref on its rung
PlaceReference(st, new_ref, rung, rotate_name, radius, tilt) ==
    LET s2 == Rename(st, new_ref, rotate_name \o "R")
    IN  [s2 EXCEPT !.objs[new_ref].rot[2] = -tilt,
                   !.objs[new_ref].rot[3] = -PI,
                   !.objs[new_ref].loc = <<radius, 0, 0>>,
                   !.objs[new_ref].parent = rung]

\* a complement copy turned like the reference copy, whatever disp is
PlaceComplementNoDisp(st, new_com, rung, rotate_name, radius, tilt, disp) ==
    [Rename(st, new_com, rotate_name \o "C")
       EXCEPT !.objs[new_com].rot = <<PI, tilt, -PI>>,
              !.objs[new_com].loc = <<radius * Cos(disp), radius * Sin(disp),
                                      2 * radius * Sin(tilt)>>,
              !.objs[new_com].parent = rung]

\* the placement of the complement-strand copy new_com on its rung
PlaceComplement(st, new_com, rung, rotate_name, radius, tilt, disp) ==
    LET s5 == Rename(st, new_com, rotate_name \o "C")
    IN  [s5 EXCEPT !.objs[new_com].rot = <<PI, tilt, disp - PI>>,
                   !.objs[new_com].loc = <<radius * Cos(disp), radius * Sin(disp),
                                           2 * radius * Sin(tilt)>>,
                   !.objs[new_com].parent = rung]

\* new_ref = copyRec(...) placed on its rung
PlaceReferenceCopy(s1, rung, rotate_name, radius, tilt) ==
    PlaceReference(s1, s1.ret, rung, rotate_name, radius, tilt)

\* new_com = copyRec(...) placed on its rung
PlaceComplementCopy(s4, rung, rotate_name, radius, tilt, disp) ==
    PlaceComplement(s4, s4.ret, rung, rotate_name, radius, tilt, disp)

RECURSIVE HelixLoop(_, _, _, _, _, _, _, _, _)

\* "another strand, if desired", then the next turn of the loop
HelixComplement(s3, rung, c, reference, complement, strand, radius, tilt, disp, i) ==
    IF strand # 2
    THEN HelixLoop(s3, c, reference, complement, strand, radius, tilt, disp, i + 1)
    ELSE IF complement.none THEN [s3 EXCEPT !.raised = "TypeError"]
    ELSE HelixLoop(PlaceComplementCopy(
                       CopyRec(s3, Lookup(s3.objs, "Molecules", complement.list[i + 1]),
                               0, c, 1),
                       rung, RotateName(c, i), radius, tilt, disp),
                   c, reference, complement, strand, radius, tilt, disp, i + 1)

\* turn i of the strand loop on the rotator rung, ref being objects[reference[i]]
HelixRung(st, rung, ref, c, reference, complement, strand, radius, tilt, disp, i) ==
    IF Children(st.objs, rung) # {} THEN [st EXCEPT !.raised = Adorned]
    ELSE IF ref = 0 THEN [st EXCEPT !.raised = "KeyError"]
    ELSE HelixComplement(PlaceReferenceCopy(CopyRec(st, ref, 0, c, 1), rung,
                                            RotateName(c, i), radius, tilt),
                         rung, c, reference, complement, strand, radius, tilt, disp, i)

\* turns i.. of the strand loop of makeHelix (i counts from 0)
HelixLoop(st, c, reference, complement, strand, radius, tilt, disp, i) ==
    IF i >= Len(reference) THEN st
    ELSE HelixRung(st, Lookup(st.objs, c, RotateName(c, i)),
                   Lookup(st.objs, "Molecules", reference[i + 1]),
                   c, reference, complement, strand, radius, tilt, disp, i)

\* the checks of makeHelix before its strand loop
HelixCheck(os, cs, c, reference) ==
    IF c \notin cs THEN NoColl
    ELSE IF \E i \in 0..(Len(reference) - 1) : Lookup(os, c, RotateName(c, i)) = 0
    THEN NoRung
    ELSE "ok"

\* makeHelix from its checks on
HelixBody(st, c, reference, comp_fun, strand, radius, tilt, disp) ==
    HelixLoop(st, c, reference,
              getComp(reference, comp_fun, ObjectNames(st.objs, "Molecules")),
              strand, radius, tilt, disp, 0)

\* the form of an object and of what hangs below it, without ids and names
RECURSIVE Form(_, _, _)
Form(os, ms, o) ==
    [type |-> os[o].type,
     materials |-> IF os[o].data = 0 THEN <<>> ELSE ms[os[o].data],
     dsize |-> os[o].dsize, dtype |-> os[o].dtype,
     n |-> Cardinality(Children(os, o)),
     kids |-> {[loc |-> os[k].loc, rot |-> os[k].rot, form |-> Form(os, ms, k)] :
                  k \in Children(os, o)}]

\* the rung indices of the skeleton in collection c
RungIdx(os, c) == {i \in 0..Cardinality(DOMAIN os) : Lookup(os, c, RotateName(c, i)) # 0}

\* the decoration of a skeleton: for each rung, what hangs on its rotator
DecorOf(os, ms, c) ==
    [i \in RungIdx(os, c) |->
        {[name |-> os[k].name, loc |-> os[k].loc, rot |-> os[k].rot,
          coll |-> os[k].coll, form |-> Form(os, ms, k)] :
            k \in Children(os, Lookup(os, c, RotateName(c, i)))}]

\* the end of a makeHelix that left the scene st
HelixDone(st, args, hist) ==
    /\ Fits(st)
    /\ SceneIs(st)
    /\ CalledHist("makeHelix", args, Outcome(st), 0, hist)
    /\ UNCHANGED <<colls, cursor, comp, active, frame, anim>>

\* A makeHelix that directly follows the clearChildren that removed the
\* decoration of a makeHelix with the same arguments remembers that decoration.
HelixHist(args) ==
    IF last.op = "clearChildren" /\ last.hist.args = args THEN last.hist ELSE NoHist

HelixCall(args, check) ==
    IF check # "ok"
    THEN /\ CalledHist("makeHelix", args, check, 0, HelixHist(args))
         /\ UNCHANGED <<objs, mats, colls, cursor, comp, active, frame, anim>>
    ELSE HelixDone(HelixBody(Now, args[1], args[2], args[3], args[4], args[5], args[6],
                             args[7]),
                   args, HelixHist(args))

MakeHelix(c, reference, comp_fun, strand, radius, tilt, disp) ==
    HelixCall(<<c, reference, comp_fun, strand, radius, tilt, disp>>,
              HelixCheck(objs, colls, c, reference))

\* a selection that stops at the children of obj
SeleRecShallow(st, obj) ==
    [st EXCEPT !.objs = [i \in DOMAIN st.objs |->
        IF i \in {obj} \cup Children(st.objs, obj) THEN [st.objs[i] EXCEPT !.sel = TRUE]
        ELSE st.objs[i]]]

\* seleRec(obj): obj.select_set(True) on obj and every descendant
SeleRec(st, obj) ==
    [st EXCEPT !.objs = [i \in DOMAIN st.objs |->
        IF i \in Subtree(st.objs, obj) THEN [st.objs[i] EXCEPT !.sel = TRUE]
        ELSE st.objs[i]]]

\* deselect(): deselects bpy.context.selected_objects
Deselect(st) ==
    [st EXCEPT !.objs = [i \in DOMAIN st.objs |-> [st.objs[i] EXCEPT !.sel = FALSE]]]

RECURSIVE SelectRungs(_, _, _, _)
\* the while loop of clearChildren: selects what hangs below every rotator
SelectRungs(st, c, object_names, i) ==
    IF Nm(RotateName(c, i)) \notin object_names THEN st
    ELSE LET obj == Lookup(st.objs, c, RotateName(c, i))
             s1 == SeleRec(st, obj)
         IN  SelectRungs([s1 EXCEPT !.objs[obj].sel = FALSE], c, object_names, i + 1)

\* bpy.ops.object.delete(): removes the selected objects and the data blocks
\* left without a user; an object that loses its parent becomes parentless
DeleteSelected(st) ==
    LET keep == {i \in DOMAIN st.objs : ~st.objs[i].sel}
        used == {st.objs[i].data : i \in keep}
    IN  [st EXCEPT !.objs = [i \in keep |->
                        IF st.objs[i].parent \in keep \cup {0} THEN st.objs[i]
                        ELSE [st.objs[i] EXCEPT !.parent = 0]],
                   !.mats = [dd \in DOMAIN st.mats \cap used |-> st.mats[dd]]]

\* what a clearChildren remembers: directly after a successful makeHelix on the
\* same collection, the arguments of that call and the decoration it removes
ClearHist(c) ==
    IF last.op = "makeHelix" /\ last.ret = "ok" /\ last.args[1] = c
    THEN [args |-> last.args, decor |-> DecorOf(objs, mats, c)]
    ELSE NoHist

\* clearChildren after its deselect()
ClearBody(s0, c) ==
    IF c \notin colls
    THEN /\ SceneIs(s0)
         /\ Called("clearChildren", <<c>>, "KeyError")
         /\ UNCHANGED <<colls, cursor, comp, active, frame, anim>>
    ELSE /\ SceneIs(DeleteSelected(SelectRungs(s0, c, ObjectNames(objs, c), 0)))
         /\ CalledHist("clearChildren", <<c>>, "ok", 0, ClearHist(c))
         /\ UNCHANGED <<colls, cursor, comp, active, frame, anim>>

ClearChildren(c) == ClearBody(Deselect(Now), c)

(***************************************************************************)
(* Direct calls of copyRec and coloRec                                     *)
(***************************************************************************)
\* the parents a direct call gives the copy of obj: None, obj itself, a child
\* of obj, the first object of the scene
CopyParents(obj) == {0, obj, 1} \cup Children(objs, obj)

\* the end of a direct call that left the scene st; a runaway recursion is
\* stopped by the interpreter whatever it has created
CopyDone(st, args) ==
    /\ st.raised = None => Fits(st)
    /\ SceneIs(st)
    /\ CalledObj("copyRec", args, Outcome(st), IF st.raised = None THEN st.ret ELSE 0)
    /\ UNCHANGED <<colls, cursor, comp, active, frame, anim>>

CallCopyRec(obj, parent, collection) ==
    /\ Cardinality(DOMAIN objs) <= MaxCopyFrom
    /\ CopyDone(CopyRec(Now, obj, parent, collection, 1), <<obj, parent, collection>>)

\* coloRec(c, material) on the object c the preceding call returned, as in
\* r2 = makeMolecule(...); coloRec(r2, ...)
CallColoRec(material) ==
    /\ last.op \in {"copyRec", "makeMolecule"}
    /\ last.obj \in DOMAIN objs
    /\ SceneIs(ColoRecSt(Now, last.obj, material, TRUE))
    /\ Called("coloRec", <<last.obj, material>>, "ok")
    /\ UNCHANGED <<colls, cursor, comp, active, frame, anim>>

(***************************************************************************)
(* Evaluating a complement function, and evaluating it again on its result *)
(***************************************************************************)
EvalComp(f, x) ==
    /\ comp' = [fun |-> f, arg |-> x, val |-> ApplyComp(f, x), n |-> 1]
    /\ UNCHANGED <<objs, mats, colls, cursor, last, active, frame, anim>>

EvalAgain ==
    /\ comp.n >= 1
    /\ comp.n < MaxApply
    /\ comp' = [comp EXCEPT !.val = ApplyComp(comp.fun, comp.val), !.n = comp.n + 1]
    /\ UNCHANGED <<objs, mats, colls, cursor, last, active, frame, anim>>

(***************************************************************************)
(* joinRec                                                                 *)
(***************************************************************************)
\* bpy.context.selected_objects
Selected(os) == {k \in DOMAIN os : os[k].sel}

NoChildren == "Error: This object has no children."

\* a check that lets every object pass
ChildCheckSkipped(os, parent) == "ok"

\* "if no children, ignore"
ChildCheck(os, parent) == IF Children(os, parent) = {} THEN NoChildren ELSE "ok"

\* bpy.data.objects.remove(...) of the objects of gone: an object that loses
\* its parent becomes parentless, a data block without a user is dropped
RemoveObjects(st, gone) ==
    [st EXCEPT !.objs = [i \in DOMAIN st.objs \ gone |->
                            IF st.objs[i].parent \in gone
                            THEN [st.objs[i] EXCEPT !.parent = 0] ELSE st.objs[i]],
               !.mats = [dd \in {st.objs[i].data : i \in DOMAIN st.objs \ gone} \ {0} |->
                            st.mats[dd]]]

RECURSIVE MergeMaterials(_, _)
\* the material slots of the joined mesh: those of the active object, then the
\* materials of the other meshes (the sequences of more) that it lacks
MergeMaterials(slots, more) ==
    IF more = <<>> THEN slots
    ELSE MergeMaterials(
             slots \o SelectSeq(Head(more), LAMBDA m : \A j \in 1..Len(slots) : slots[j] # m),
             Tail(more))

\* obj.select_set(False) for the objects of S
Unselect(st, S) ==
    [st EXCEPT !.objs = [i \in DOMAIN st.objs |->
        IF i \in S THEN [st.objs[i] EXCEPT !.sel = FALSE] ELSE st.objs[i]]]

\* the selected empties (empty_list)
EmptyList(os) == {k \in Selected(os) : os[k].type = "EMPTY"}

\* the selected meshes other than the active object
Joined(os, act) == {k \in Selected(os) \ {act} : os[k].type = "MESH"}

\* bpy.ops.object.join(): the selected meshes become part of the active mesh
\* and cease to exist; the operator refuses an active object that is no mesh
JoinOp(st, act) ==
    IF st.objs[act].type # "MESH" THEN [st EXCEPT !.raised = "RuntimeError"]
    ELSE RemoveObjects(
             [st EXCEPT !.mats[st.objs[act].data] =
                 MergeMaterials(st.mats[st.objs[act].data],
                                [j \in 1..Len(SortedSeq(Joined(st.objs, act))) |->
                                    st.mats[st.objs[SortedSeq(Joined(st.objs, act))[j]].data]])],
             Joined(st.objs, act))

\* "destroy all empties", unless the join raised
DestroyEmpties(s5, empty_list) ==
    IF s5.raised # None THEN s5 ELSE RemoveObjects(s5, empty_list)

\* joinRec from "remove all empties from selection" on: s3 is the scene with the
\* subtree and the promoted parent selected
JoinSelected(s3, act) ==
    DestroyEmpties(JoinOp(Unselect(s3, EmptyList(s3.objs)), act), EmptyList(s3.objs))

\* parent.select_set(True) for the promoted parent
SelectOne(st, act) == [st EXCEPT !.objs[act].sel = TRUE]

\* the end of a joinRec that left the scene st with the active object act
JoinDone(st, act, args) ==
    /\ SceneIs(st)
    /\ active' = act
    /\ CalledObj("joinRec", args, Outcome(st), act)
    /\ UNCHANGED <<colls, cursor, comp, frame, anim>>

\* joinRec on the object obj; args[1] is the argument (0 for None)
JoinCall(obj, args, check) ==
    IF check # "ok"
    THEN /\ CalledObj("joinRec", args, check, 0)
         /\ UNCHANGED <<objs, mats, colls, cursor, comp, active, frame, anim>>
    ELSE IF objs[obj].parent = 0
    THEN JoinDone([SeleRec(Deselect(Now), obj) EXCEPT !.raised = "AttributeError"],
                  active, args)
    ELSE JoinDone(JoinSelected(SelectOne(SeleRec(Deselect(Now), obj), objs[obj].parent),
                               objs[obj].parent),
                  objs[obj].parent, args)

\* the molecules that are joined: a base with one attachment, a molecule with a
\* molecule attached, a molecule copied from a molecule
JoinMolCalls == { <<"G1", "A1", <<AttT1>>, NoLoc>>,
                  <<"C1", "a1", <<AttG1>>, NoLoc>>,
                  <<"C1", "G1", <<AttT1>>, <<1, 2, 3>>>> }

\* joinRec(parent); with parent None the first selected object is taken, and
\* the call fails on None when nothing is selected.  args[2] is the object
\* the join starts from.
JoinRec(parent) ==
    IF parent = 0 /\ Selected(objs) = {}
    THEN /\ CalledObj("joinRec", <<0, 0>>, "AttributeError", 0)
         /\ UNCHANGED <<objs, mats, colls, cursor, comp, active, frame, anim>>
    ELSE \E obj \in (IF parent = 0 THEN Selected(objs) ELSE {parent}) :
            JoinCall(obj, <<parent, obj>>, ChildCheck(objs, obj))

(***************************************************************************)
(* Bond rotation and helix rotation: setInterpolation, rotateBond,         *)
(* resetAnimation, coilCollection.  The rotation keyframes of an object    *)
(* are a function from frames to [rot, inter]; an object without           *)
(* animation_data is not in the domain of anim.                            *)
(***************************************************************************)
\* the objects, their keyframes and the current frame during a call
Timeline(os, an, fr) == [objs |-> os, anim |-> an, frame |-> fr, raised |-> None]

Playing == Timeline(objs, anim, frame)

\* the least and the greatest element of a set of frames
MinOf(F) == CHOOSE x \in F : \A y \in F : x <= y
MaxOf(F) == CHOOSE x \in F : \A y \in F : y <= x

\* the rotation the keyframes keys give at frame f: the keyframe at f, the
\* first or last keyframe outside their range, else the value interpolated
\* from the keyframe before f as that keyframe says (the calls of the model
\* use CONSTANT and LINEAR)
EvalAt(keys, f) ==
    IF f \in DOMAIN keys THEN keys[f].rot
    ELSE IF f < MinOf(DOMAIN keys) THEN keys[MinOf(DOMAIN keys)].rot
    ELSE IF f > MaxOf(DOMAIN keys) THEN keys[MaxOf(DOMAIN keys)].rot
    ELSE LET lo == MaxOf({g \in DOMAIN keys : g < f})
             hi == MinOf({g \in DOMAIN keys : g > f})
         IN  IF keys[lo].inter = "CONSTANT" THEN keys[lo].rot
             ELSE [j \in 1..3 |->
                      keys[lo].rot[j]
                        + ((keys[hi].rot[j] - keys[lo].rot[j]) * (f - lo)) \div (hi - lo)]

\* bpy.context.scene.frame_set(f): every animated object takes the rotation
\* its keyframes give at f
FrameSet(tl, f) ==
    [tl EXCEPT !.frame = f,
               !.objs = [k \in DOMAIN tl.objs |->
                   IF k \in DOMAIN tl.anim
                   THEN [tl.objs[k] EXCEPT !.rot = EvalAt(tl.anim[k], f)]
                   ELSE tl.objs[k]]]

\* obj.keyframe_insert(data_path = "rotation_euler", index = -1) at the current
\* frame: a keyframe already there takes the new value, a new one is BEZIER
InsertKey(tl, obj) ==
    [tl EXCEPT !.anim =
        IF obj \notin DOMAIN tl.anim
        THEN Extend(tl.anim, obj,
                    Extend(<<>>, tl.frame, [rot |-> tl.objs[obj].rot, inter |-> "BEZIER"]))
        ELSE IF tl.frame \in DOMAIN tl.anim[obj]
        THEN [tl.anim EXCEPT ![obj][tl.frame].rot = tl.objs[obj].rot]
        ELSE [tl.anim EXCEPT ![obj] =
                 Extend(tl.anim[obj], tl.frame,
                        [rot |-> tl.objs[obj].rot, inter |-> "BEZIER"])]]

\* a setInterpolation that changes nothing
SetInterpolationNone(tl, obj, inter) == tl

\* setInterpolation(obj, inter); an object without animation_data has no action
SetInterpolation(tl, obj, inter) ==
    IF obj \notin DOMAIN tl.anim THEN [tl EXCEPT !.raised = "AttributeError"]
    ELSE [tl EXCEPT !.anim[obj] =
             [g \in DOMAIN tl.anim[obj] |-> [tl.anim[obj][g] EXCEPT !.inter = inter]]]

\* obj.rotation_euler.z = ref_z
SetZ(tl, obj, ref_z) == [tl EXCEPT !.objs[obj].rot[3] = ref_z]

RECURSIVE BondLoop(_, _, _, _, _, _, _, _)
\* turns i..n-1 of the loop of rotateBond
BondLoop(tl, obj, i, n, vf, vt, f, ref_z) ==
    IF i >= n THEN tl
    ELSE BondLoop(InsertKey(SetZ(FrameSet(tl, f), obj, ref_z), obj),
                  obj, i + 1, n, vf, vt, f + vf, ref_z + vt)

\* rotateBond on its target obj, from ref_z = obj.rotation_euler.z on
RotateTarget(tl, obj, n, vf, vt, f, inter) ==
    SetInterpolation(BondLoop(tl, obj, 0, n, vf, vt, f, tl.objs[obj].rot[3]), obj, inter)

\* resetAnimation(obj, default_frame)
ResetAnimation(tl, obj, default_frame) ==
    [FrameSet(tl, default_frame) EXCEPT
        !.anim = [k \in DOMAIN tl.anim \ {obj} |-> tl.anim[k]]]

\* the end of a call that left the timeline tl
TimelineIs(tl) ==
    /\ objs' = tl.objs
    /\ anim' = tl.anim
    /\ frame' = tl.frame

\* angles of the model stay within MaxTurn
Turns(tl) == \A k \in DOMAIN tl.objs : tl.objs[k].rot[3] \in (-MaxTurn)..MaxTurn

BondDone(tl, args, target) ==
    /\ Turns(tl)
    /\ TimelineIs(tl)
    /\ CalledObj("rotateBond", args, Outcome(tl), target)
    /\ UNCHANGED <<mats, colls, cursor, comp, active>>

\* rotateBond(obj, n, vf, vt, f, inter, subEmpty); obj.children[0] is one of
\* the children, whichever the host lists first
RotateBond(obj, n, vf, vt, f, inter, subEmpty) ==
    IF subEmpty /\ objs[obj].type = "EMPTY"
    THEN IF Children(objs, obj) = {}
         THEN /\ CalledObj("rotateBond", <<obj, n, vf, vt, f, inter, subEmpty>>,
                           "IndexError", 0)
              /\ UNCHANGED <<objs, mats, colls, cursor, comp, active, frame, anim>>
         ELSE \E child \in Children(objs, obj) :
                 BondDone(RotateTarget(Playing, child, n, vf, vt, f, inter),
                          <<obj, n, vf, vt, f, inter, subEmpty>>, child)
    ELSE BondDone(RotateTarget(Playing, obj, n, vf, vt, f, inter),
                  <<obj, n, vf, vt, f, inter, subEmpty>>, obj)

\* num_rungs of coilCollection: the first i with no object named c_i
NumRungs(os, c) ==
    CHOOSE num \in 0..Cardinality(DOMAIN os) :
        /\ \A i \in 0..(num - 1) : Nm(Fmt(c, i)) \in ObjectNames(os, c)
        /\ Nm(Fmt(c, num)) \notin ObjectNames(os, c)

RECURSIVE CoilLoop(_, _, _, _, _, _, _, _, _)
\* turns i..num-1 of the first loop of coilCollection
CoilLoop(tl, c, i, num, n, vf, vt, f, inter) ==
    IF i >= num \/ tl.raised # None THEN tl
    ELSE IF Lookup(tl.objs, c, RotateName(c, i)) = 0
    THEN [tl EXCEPT !.raised = "ValueError"]
    ELSE CoilLoop(RotateTarget(ResetAnimation(tl, Lookup(tl.objs, c, RotateName(c, i)), f),
                               Lookup(tl.objs, c, RotateName(c, i)), n, vf, vt * i, f, inter),
                  c, i + 1, num, n, vf, vt, f, inter)

\* an uncoiling that starts where the coiling started
UncoilFrameStart(n, vf, f) == f

\* the frame the uncoiling starts at
UncoilFrame(n, vf, f) == f + (n - 1) * vf

RECURSIVE UncoilLoop(_, _, _, _, _, _, _, _, _)
\* turns i..num-1 of the second loop of coilCollection
UncoilLoop(tl, c, i, num, n, vf, vt, f, inter) ==
    IF i >= num \/ tl.raised # None THEN tl
    ELSE UncoilLoop(RotateTarget(tl, Lookup(tl.objs, c, RotateName(c, i)), n, vf,
                                 (-vt) * i, UncoilFrame(n, vf, f), inter),
                    c, i + 1, num, n, vf, vt, f, inter)

\* coilCollection from its loops on
CoilBody(tl, c, num, n, vf, vt, f, inter, uncoil) ==
    IF uncoil
    THEN UncoilLoop(CoilLoop(tl, c, 0, num, n, vf, vt, f, inter),
                    c, 0, num, n, vf, vt, f, inter)
    ELSE CoilLoop(tl, c, 0, num, n, vf, vt, f, inter)

CoilDone(tl, args) ==
    /\ Turns(tl)
    /\ TimelineIs(tl)
    /\ Called("coilCollection", args, Outcome(tl))
    /\ UNCHANGED <<mats, colls, cursor, comp, active>>

\* coilCollection(collect_name, n, vf, vt, f, inter, uncoil)
CoilCollection(collect_name, n, vf, vt, f, inter, uncoil) ==
    IF collect_name \notin colls
    THEN /\ Called("coilCollection", <<collect_name, n, vf, vt, f, inter, uncoil>>, "KeyError")
         /\ UNCHANGED <<objs, mats, colls, cursor, comp, active, frame, anim>>
    ELSE CoilDone(CoilBody(Playing, collect_name, NumRungs(objs, collect_name),
                           n, vf, vt, f, inter, uncoil),
                  <<collect_name, n, vf, vt, f, inter, uncoil>>)

(***************************************************************************)
(* Specifications                                                          *)
(***************************************************************************)
\* skeletons and helices
Next ==
    \/ \E c \in CollNames, num \in 1..MaxRungs, g \in SkelGeoms, l \in Locations :
          MakeSkeleton(c, num, g[1], g[2], l)
    \/ \E c \in CollNames, r \in RefSeqs, f \in CompFuns, s \in {1, 2}, g \in HelixGeoms :
          MakeHelix(c, r, f, s, g[1], g[2], g[3])
    \/ \E c \in CollNames : ClearChildren(c)

Spec == Init /\ [][Next]_vars

\* molecules
NextMol ==
    \/ \E m \in MolCalls : MakeMolecule(m[1], m[2], m[3], m[4])
    \/ \E o \in DOMAIN objs, c \in {None, "Collection"} :
          \E p \in CopyParents(o) : CallCopyRec(o, p, c)
    \/ \E m \in Materials : CallColoRec(m)

SpecMol == Init /\ [][NextMol]_vars

\* the complement functions
NextComp ==
    \/ \E f \in AllCompFuns, x \in CompArgs : EvalComp(f, x)
    \/ EvalAgain

SpecComp == Init /\ [][NextComp]_vars

\* molecules and their joins
NextJoin ==
    \/ \E m \in JoinMolCalls : MakeMolecule(m[1], m[2], m[3], m[4])
    \/ \E m \in Materials : CallColoRec(m)
    \/ \E parent \in DOMAIN objs \cup {0} : JoinRec(parent)

SpecJoin == Init /\ [][NextJoin]_vars

\* the bond EMPTY_a1_0 of the molecule a1 and the attachment below it
BondObjs == {Lookup(InitObjs, "Molecules", "EMPTY_a1_0"), Lookup(InitObjs, "Molecules", "a1_0")}

FrameSteps == {0, 2}
Frames == {3}
Interpolations == {"LINEAR", "CONSTANT"}
BondAngles == {10}

\* bond rotation
NextBond ==
    \E obj \in BondObjs, n \in 0..MaxKeys, vf \in FrameSteps, vt \in BondAngles,
       f \in Frames, inter \in Interpolations, subEmpty \in BOOLEAN :
          RotateBond(obj, n, vf, vt, f, inter, subEmpty)

SpecBond == Init /\ [][NextBond]_vars

\* skeletons whose rungs are turned by 10 degrees each
CoilGeoms == { <<8, 10>> }
CoilAngles == {10, -10}

\* the rotators of the skeletons
Rotators == {k \in DOMAIN objs : \E c \in CollNames, i \in 0..MaxRungs :
                objs[k].coll = c /\ objs[k].name = Nm(RotateName(c, i))}

\* helix rotation
NextCoil ==
    \/ \E c \in CollNames, num \in 1..MaxRungs, g \in CoilGeoms :
          MakeSkeleton(c, num, g[1], g[2], NoLoc)
    \/ \E c \in CollNames, n \in 0..MaxKeys, vf \in FrameSteps, vt \in CoilAngles,
          f \in Frames, inter \in Interpolations, uncoil \in BOOLEAN :
             CoilCollection(c, n, vf, vt, f, inter, uncoil)
    \/ \E obj \in Rotators, vt \in BondAngles, f \in Frames, subEmpty \in BOOLEAN :
          RotateBond(obj, MaxKeys, 2, vt, f, "LINEAR", subEmpty)

SpecCoil == Init /\ [][NextCoil]_vars

(***************************************************************************)
(* Properties of the complement functions (SpecComp)                       *)
(***************************************************************************)
Suffixes == {"1", "2", "3"}

\* the pairing partner of a base letter
Partner(l) ==
    CASE l = "A" -> "T" [] l = "T" -> "A" [] l = "G" -> "C" [] l = "C" -> "G"
      [] l = "a" -> "U" [] l = "U" -> "a" [] l = "g" -> "c" [] l = "c" -> "g"

\* after n evaluations started at letter l with suffix k the value is the
\* partner of l (n odd) or l itself (n even), with the same suffix
Paired(f, letters) ==
    \A l \in letters, k \in Suffixes :
        (comp.fun = f /\ comp.arg = l \o k) =>
            comp.val = (IF comp.n % 2 = 1 THEN Partner(l) ELSE l) \o k

\* C2: complementDNA and complementRNA of chang_techniques.py are symmetric
\* pairings on their twelve names: Ak<->Tk, Gk<->Ck, ak<->Uk, gk<->ck, the
\* suffix is kept, and evaluating twice gives the name back.
C2_SymmetricPairing ==
    /\ Paired("complementDNA", {"A", "T", "G", "C"})
    /\ Paired("complementRNA", {"a", "U", "g", "c"})

C2_Witness ==
    /\ comp.fun = "complementRNA" /\ comp.arg = "g3" /\ comp.n = 2 /\ comp.val = "g3"

\* the partner of an RNA base code of helix_maker.py
PartnerRNA(x) == CASE x = "A" -> "U" [] x = "U" -> "A" [] x = "G" -> "C" [] x = "C" -> "G"

\* C3: complementRNA of helix_maker.py is a symmetric pairing on {A, U, G, C}:
\* A -> U, U -> A, G -> C, C -> G, and evaluating twice gives the code back.
C3_SymmetricRNA ==
    (comp.fun = "hm_complementRNA" /\ comp.arg \in {"A", "U", "G", "C"}) =>
        comp.val = (IF comp.n % 2 = 1 THEN PartnerRNA(comp.arg) ELSE comp.arg)

(***************************************************************************)
(* Properties of makeSkeleton (Spec)                                       *)
(***************************************************************************)
\* the objects linked to collection c
InColl(os, c) == {k \in DOMAIN os : os[k].coll = c}

\* C8: after a successful makeSkeleton(collect_name, num_objects, height, base,
\* location) the new collection holds exactly 2*num_objects objects: for each i
\* a parentless empty <collect_name>_<i> at (x, y, z + i*height) and an empty
\* Rotate_<collect_name>_<i> whose parent is <collect_name>_<i>, whose local
\* location is the origin and whose z-rotation is base*i.
C8_SkeletonLayout ==
    (last.op = "makeSkeleton" /\ last.ret = "ok") =>
        LET c == last.args[1]
            num == last.args[2]
            height == last.args[3]
            base == last.args[4]
            at == last.args[6]
        IN  /\ c \in colls
            /\ Cardinality(InColl(objs, c)) = 2 * num
            /\ \A i \in 0..(num - 1) :
                  LET o == Lookup(objs, c, Fmt(c, i))
                      r == Lookup(objs, c, RotateName(c, i))
                  IN  /\ o # 0 /\ r # 0
                      /\ objs[o].type = "EMPTY" /\ objs[r].type = "EMPTY"
                      /\ objs[o].parent = 0
                      /\ objs[o].loc = <<at[1], at[2], at[3] + i * height>>
                      /\ objs[r].parent = o
                      /\ objs[r].loc = <<0, 0, 0>>
                      /\ objs[r].rot[3] = base * i

C8_Witness ==
    /\ last.op = "makeSkeleton" /\ last.ret = "ok"
    /\ last.args[2] = MaxRungs /\ last.args[4] < 0 /\ last.args[5] = NoLoc

\* C9: makeSkeleton never creates a duplicate collection: called with the name
\* of an existing collection it reports an error, creates no collection and no
\* object, and leaves every object unchanged.
C9_NoDuplicateCollection ==
    [][(last'.op = "makeSkeleton" /\ last'.args[1] \in colls) =>
          /\ last'.ret = SkelExists
          /\ UNCHANGED <<objs, mats, colls, cursor>>]_vars

C9_Witness ==
    /\ last.op = "makeSkeleton" /\ last.ret = SkelExists
    /\ InColl(objs, last.args[1]) # {}

(***************************************************************************)
(* Properties of makeHelix and clearChildren (Spec)                        *)
(***************************************************************************)
\* the rotator of rung i of the skeleton c
Rung(os, c, i) == Lookup(os, c, RotateName(c, i))

\* the condition C1 puts on the scene makeHelix is called in
HelixReady(os, cs, c, reference, comp_fun) ==
    /\ c \in cs
    /\ \A i \in 0..(Len(reference) - 1) :
          /\ Rung(os, c, i) # 0
          /\ Children(os, Rung(os, c, i)) = {}
          /\ Lookup(os, "Molecules", reference[i + 1]) # 0
          /\ Lookup(os, "Molecules", ApplyComp(comp_fun, reference[i + 1])) # 0

\* k is, in the scene (os2, ms2), a copy named s of the object called ref in
\* the collection "Molecules" of the scene (os1, ms1)
IsCopyNamed(os2, ms2, k, s, os1, ms1, ref) ==
    /\ os2[k].name = Nm(s)
    /\ Form(os2, ms2, k) = Form(os1, ms1, Lookup(os1, "Molecules", ref))

\* C1: a makeHelix on a skeleton whose rungs 0..len(reference)-1 exist and have
\* no children, with every reference[i] and comp_fun(reference[i]) naming an
\* object, leaves every rung i < len(reference) with exactly one child when
\* strand = 1 (a copy of objects[reference[i]] named Rotate_<c>_<i>R) and
\* exactly two when strand = 2 (that copy and a copy of
\* objects[comp_fun(reference[i])] named Rotate_<c>_<i>C); rungs of index
\* >= len(reference) receive no children.
C1_HelixChildren ==
    [][(last'.op = "makeHelix"
          /\ HelixReady(objs, colls, last'.args[1], last'.args[2], last'.args[3])) =>
          LET c == last'.args[1]
              reference == last'.args[2]
              comp_fun == last'.args[3]
              strand == last'.args[4]
          IN  /\ last'.ret = "ok"
              /\ \A i \in RungIdx(objs, c) :
                    LET kids == Children(objs', Rung(objs, c, i))
                        isR(k) == IsCopyNamed(objs', mats', k, RotateName(c, i) \o "R",
                                              objs, mats, reference[i + 1])
                        isC(k) == IsCopyNamed(objs', mats', k, RotateName(c, i) \o "C",
                                              objs, mats,
                                              ApplyComp(comp_fun, reference[i + 1]))
                    IN  IF i >= Len(reference) THEN kids = Children(objs, Rung(objs, c, i))
                        ELSE /\ Cardinality(kids) = strand
                             /\ \E k \in kids : isR(k)
                             /\ strand = 2 => \E k \in kids : isC(k)]_vars

C1_Witness ==
    /\ last.op = "makeHelix" /\ last.ret = "ok"
    /\ last.args[2] = <<"A1">> /\ last.args[3] = "complementDNA" /\ last.args[4] = 2
    /\ Cardinality(Children(objs, Rung(objs, "H", 0))) = 2
    /\ \E i \in RungIdx(objs, "H") : i >= 1 /\ Children(objs, Rung(objs, "H", i)) = {}

\* the empties makeSkeleton made for collection c
SkeletonOf(os, c) ==
    {k \in InColl(os, c) : \E i \in 0..Cardinality(DOMAIN os) :
                              os[k].name \in {Nm(Fmt(c, i)), Nm(RotateName(c, i))}}

\* C10: clearChildren makes a skeleton reusable: after makeSkeleton, makeHelix
\* and clearChildren all skeleton empties still exist with their parenting,
\* locations and rotations unchanged, no rotator has children and no decoration
\* object remains in the collection; a following makeHelix with the same
\* arguments succeeds and yields the decoration the first one gave.
C10_SkeletonReusable ==
    [][/\ (last'.op = "clearChildren" /\ last'.ret = "ok") =>
             LET c == last'.args[1]
             IN  /\ \A k \in SkeletonOf(objs, c) :
                       /\ k \in DOMAIN objs'
                       /\ objs'[k] = [objs[k] EXCEPT !.sel = FALSE]
                 /\ InColl(objs', c) = SkeletonOf(objs, c)
                 /\ \A i \in RungIdx(objs, c) : Children(objs', Rung(objs', c, i)) = {}
       /\ (last'.op = "makeHelix" /\ last'.hist.args = last'.args) =>
             /\ last'.ret = "ok"
             /\ DecorOf(objs', mats', last'.args[1]) = last'.hist.decor]_vars

C10_Witness ==
    /\ last.op = "makeHelix" /\ last.ret = "ok" /\ last.hist.args = last.args
    /\ last.args[2] = <<"a1", "T1">> /\ last.args[4] = 2
    /\ \E k \in Children(objs, Rung(objs, "H", 0)) : Cardinality(Subtree(objs, k)) = 3

(***************************************************************************)
(* Properties of copyRec, coloRec and makeMolecule (SpecMol)               *)
(***************************************************************************)
\* the objects a step creates
Created == DOMAIN objs' \ DOMAIN objs

\* C4: copyRec(obj, parent, collection) creates exactly one new object for
\* every object of obj's subtree, links each of them to collection (Molecules
\* when collection is None), reproduces the shape of the tree, gives the
\* returned root copy the parent `parent` and leaves the parent relation of the
\* objects that existed unchanged.
C4_CopyRecCopiesSubtree ==
    [][last'.op = "copyRec" =>
          LET obj == last'.args[1]
              parent == last'.args[2]
              collection == last'.args[3]
              copy == last'.obj
          IN  /\ last'.ret = "ok"
              /\ copy \in Created
              /\ Cardinality(Created) = Cardinality(Subtree(objs, obj))
              /\ Created = Subtree(objs', copy)
              /\ \A k \in Created : objs'[k].coll = CollOrMol(collection)
              /\ Form(objs', mats', copy) = Form(objs, mats, obj)
              /\ objs'[copy].parent = parent
              /\ \A k \in DOMAIN objs : objs'[k].parent = objs[k].parent]_vars

\* the data blocks used by the objects of the subtree of o
DataOf(os, o) == {os[k].data : k \in Subtree(os, o)} \ {0}

\* C5: after c = copyRec(obj) no object of c's subtree shares its data block
\* with an object of obj's subtree (nor with any object that existed), and
\* coloRec(c, material) gives the material to the meshes of c's subtree and
\* leaves the materials of every object outside c's subtree, obj and its
\* descendants among them, unchanged.
C5_ReferenceNotMutated ==
    [][/\ (last'.op = "copyRec" /\ last'.ret = "ok") =>
             /\ DataOf(objs', last'.obj) \cap {objs'[k].data : k \in DOMAIN objs} = {}
             /\ DataOf(objs', last'.obj) \cap DataOf(objs', last'.args[1]) = {}
       /\ last'.op = "coloRec" =>
             LET c == last'.args[1]
             IN  /\ objs' = objs
                 /\ \A k \in Subtree(objs, c) :
                       objs[k].type # "EMPTY" => mats'[objs[k].data] = <<last'.args[2]>>
                 /\ \A k \in DOMAIN objs \ Subtree(objs, c) :
                       objs[k].data # 0 => mats'[objs[k].data] = mats[objs[k].data]
                 /\ last.op = "copyRec" =>
                       \A k \in Subtree(objs, last.args[1]) :
                          objs[k].data # 0 => mats'[objs[k].data] = mats[objs[k].data]]_vars

C5_Witness ==
    /\ last.op = "coloRec"
    /\ Cardinality(Subtree(objs, last.args[1])) = 3
    /\ objs[last.args[1]].name.base = "a1"
    /\ mats[objs[last.args[1]].data] = <<"Ribose">>
    /\ mats[objs[Lookup(objs, "Molecules", "a1")].data] = <<"White">>

\* the scene os with the objects of S taken off their parents
Detach(os, S) == [k \in DOMAIN os |-> IF k \in S THEN [os[k] EXCEPT !.parent = 0] ELSE os[k]]

\* the linking empties EMPTY_<name>_<j>, j >= i, of the scene os
LinkingFrom(os, name, n, i) ==
    {Lookup(os, "Molecules", "EMPTY_" \o Fmt(name, j)) : j \in i..(n - 1)}

\* C6: a makeMolecule(name, parent_name, attachments, location) that returns
\* its root, called with a new name and with names of molecules, leaves a new
\* parentless root named `name` at `location` that is, its linking empties
\* apart, a recursive copy of objects[parent_name]; for each attachment index i
\* the root has exactly one new empty child EMPTY_<name>_<i> (y-rotation
\* attachments[i][2], z-rotation attachments[i][3]) whose only child is a
\* recursive copy of objects[attachments[i][0]] (the molecule as built so far
\* when that is `name` itself) named <name>_<i> at (0, 0, attachments[i][1])
\* with rotation (pi, 0, attachments[i][4]); with no attachments the call
\* creates the copy of the parent molecule and nothing else; every object that
\* existed, and its materials, are unchanged.
C6_MoleculeStructure ==
    [][(last'.op = "makeMolecule" /\ last'.ret = "ok") =>
          LET name == last'.args[1]
              parent_name == last'.args[2]
              attachments == last'.args[3]
              n == Len(last'.args[3])
              root == last'.obj
              ref == Lookup(objs, "Molecules", parent_name)
              E(i) == Lookup(objs', "Molecules", "EMPTY_" \o Fmt(name, i))
          IN  /\ root \in Created
              /\ objs'[root].name = Nm(name)
              /\ objs'[root].loc = last'.args[4]
              /\ objs'[root].parent = 0
              /\ objs'[root].coll = "Molecules"
              /\ Form(Detach(objs', LinkingFrom(objs', name, n, 0)), mats', root)
                    = Form(objs, mats, ref)
              /\ Cardinality(Children(objs', root))
                    = Cardinality(Children(objs, ref)) + n
              /\ \A i \in 0..(n - 1) :
                    LET att == attachments[i + 1]
                        made == Lookup(objs, "Molecules", att[1])
                    IN  /\ E(i) \in Created
                        /\ objs'[E(i)].type = "EMPTY"
                        /\ objs'[E(i)].parent = root
                        /\ objs'[E(i)].rot[2] = att[3]
                        /\ objs'[E(i)].rot[3] = att[4]
                        /\ Cardinality(Children(objs', E(i))) = 1
                        /\ \A k \in Children(objs', E(i)) :
                              /\ k \in Created
                              /\ objs'[k].name = Nm(Fmt(name, i))
                              /\ objs'[k].loc = <<0, 0, att[2]>>
                              /\ objs'[k].rot = <<PI, 0, att[5]>>
                              /\ Form(objs', mats', k) =
                                    IF made # 0 THEN Form(objs, mats, made)
                                    ELSE Form(Detach(objs', LinkingFrom(objs', name, n, i)),
                                              mats', root)
              /\ n = 0 => Cardinality(Created) = Cardinality(Subtree(objs, ref))
              /\ Created = Subtree(objs', root)
              /\ \A k \in DOMAIN objs :
                    /\ objs'[k] = objs[k]
                    /\ objs[k].data # 0 => mats'[objs[k].data] = mats[objs[k].data]]_vars

C6_Witness ==
    /\ last.op = "makeMolecule" /\ last.ret = "ok"
    /\ Len(last.args[3]) = 2
    /\ last.args[2] = "a1"
    /\ \E k \in Children(objs, Lookup(objs, "Molecules", "EMPTY_G1_0")) :
          objs[k].name = Nm("G1_0")

\* C7: makeMolecule rejects bad names without side effects: if an object named
\* `name` exists in objects, or none named `parent_name` does, it returns no
\* object and creates, links, renames, moves or re-parents nothing.
C7_BadNamesRejected ==
    [][(/\ last'.op = "makeMolecule"
        /\ \/ Nm(last'.args[1]) \in ObjectNames(objs, "Molecules")
           \/ Nm(last'.args[2]) \notin ObjectNames(objs, "Molecules")) =>
          /\ last'.obj = 0
          /\ last'.ret \in {MolExists, NoParent}
          /\ UNCHANGED <<objs, mats, colls, cursor>>]_vars

C7_Witness ==
    /\ last.op = "makeMolecule" /\ last.ret = MolExists
    /\ last.args[2] = "A1"
    /\ Lookup(objs, "Molecules", last.args[1]) # 0

(***************************************************************************)
(* Phase of the complement strand (Spec)                                   *)
(***************************************************************************)
\* C16: in a helix built by makeHelix with strand = 2, at every rung i the
\* z-rotation of Rotate_<c>_<i>C minus the z-rotation of Rotate_<c>_<i>R is
\* disp, whatever i is, and their y-rotations are +tilt and -tilt.
C16_ComplementDisplaced ==
    (last.op = "makeHelix" /\ last.ret = "ok" /\ last.args[4] = 2) =>
        LET c == last.args[1]
            tilt == last.args[6]
            disp == last.args[7]
        IN  \A i \in 0..(Len(last.args[2]) - 1) :
               LET R == Lookup(objs, c, RotateName(c, i) \o "R")
                   C == Lookup(objs, c, RotateName(c, i) \o "C")
               IN  /\ R # 0 /\ C # 0
                   /\ objs[C].rot[3] - objs[R].rot[3] = disp
                   /\ objs[C].rot[2] = tilt
                   /\ objs[R].rot[2] = -tilt

C16_Witness ==
    /\ last.op = "makeHelix" /\ last.ret = "ok" /\ last.args[4] = 2
    /\ last.args[2] = <<"T1", "A1">> /\ last.args[6] = 90 /\ last.args[7] = 180
    /\ Lookup(objs, "H", "Rotate_H_1C") # 0
    /\ objs[Lookup(objs, "H", "Rotate_H_1")].rot[3] # 0

(***************************************************************************)
(* Properties of joinRec (SpecJoin)                                        *)
(***************************************************************************)
\* the materials in the slots of the data block dd
SlotsOf(ms, dd) == {ms[dd][j] : j \in 1..Len(ms[dd])}

\* the objects of S are gone from the scene os2, and what the meshes of S
\* carried is now carried by the mesh into
MergedInto(os1, ms1, os2, ms2, S, into) ==
    /\ \A k \in S : k \notin DOMAIN os2
    /\ into \in DOMAIN os2
    /\ \A k \in S : os1[k].type # "EMPTY" =>
          /\ os2[into].type = "MESH"
          /\ SlotsOf(ms1, os1[k].data) \subseteq SlotsOf(ms2, os2[into].data)

\* the objects outside S are what they were, their selection apart
Untouched(os1, ms1, os2, ms2, S) ==
    \A k \in DOMAIN os1 \ S :
       /\ k \in DOMAIN os2
       /\ [os2[k] EXCEPT !.sel = FALSE] = [os1[k] EXCEPT !.sel = FALSE]
       /\ os1[k].data # 0 => ms2[os1[k].data] = ms1[os1[k].data]

\* C11: joinRec(p) on an object p with at least one child and a parent q
\* promotes the join to q: afterwards q still exists, every object of p's
\* subtree is gone (the empties removed, the others merged into q), nothing
\* else is removed, and the objects that are neither q nor in p's subtree are
\* unchanged.
C11_JoinPromotedToParent ==
    [][(/\ last'.op = "joinRec" /\ last'.args[2] # 0
        /\ Children(objs, last'.args[2]) # {}
        /\ objs[last'.args[2]].parent # 0) =>
          LET p == last'.args[2]
              q == objs[p].parent
              sub == Subtree(objs, p)
          IN  /\ DOMAIN objs' = DOMAIN objs \ sub
              /\ MergedInto(objs, mats, objs', mats', sub, q)
              /\ objs'[q].parent = objs[q].parent
              /\ Untouched(objs, mats, objs', mats', sub \cup {q})]_vars

\* C12: joinRec on a molecule root (an object with children and no parent)
\* completes and leaves the root and its non-empty descendants joined into one
\* object, with all empties of the molecule removed.
C12_JoinOfRoot ==
    [][(/\ last'.op = "joinRec" /\ last'.args[2] # 0
        /\ Children(objs, last'.args[2]) # {}
        /\ objs[last'.args[2]].parent = 0) =>
          LET p == last'.args[2]
              sub == Subtree(objs, p) \ {p}
          IN  /\ last'.ret = "ok"
              /\ DOMAIN objs' = DOMAIN objs \ sub
              /\ MergedInto(objs, mats, objs', mats', sub, p)]_vars

\* C13: joinRec on an object without children reports 'This object has no
\* children' and changes nothing: no object is joined or removed, the selection
\* and the active object are unchanged.
C13_NoChildrenNoChange ==
    [][(/\ last'.op = "joinRec" /\ last'.args[2] # 0
        /\ Children(objs, last'.args[2]) = {}) =>
          /\ last'.ret = NoChildren
          /\ UNCHANGED <<objs, mats, active, colls, cursor>>]_vars

C13_Witness ==
    /\ last.op = "joinRec" /\ last.ret = NoChildren
    /\ last.args[2] \in DOMAIN objs
    /\ objs[last.args[2]].parent # 0
    /\ active # 0
    /\ Selected(objs) # {}


\* the frames rotateBond visits
BondFrames(n, vf, f) == {f + i * vf : i \in 0..(n - 1)}

\* the keyframes of object k, none if it has no animation_data
KeysOf(an, k) == IF k \in DOMAIN an THEN an[k] ELSE <<>>

\* this step put n keyframes on target at f, f+vf, ..., keyframe i with the
\* z-rotation target had before plus i*vt, left its other keyframes where
\* they were, and every keyframe of target has interpolation inter
BondKeys(target, n, vf, vt, f, inter) ==
    /\ DOMAIN KeysOf(anim', target) = DOMAIN KeysOf(anim, target) \cup BondFrames(n, vf, f)
    /\ \A i \in 0..(n - 1) :
          KeysOf(anim', target)[f + i * vf].rot[3] = objs[target].rot[3] + i * vt
    /\ \A g \in DOMAIN KeysOf(anim, target) \ BondFrames(n, vf, f) :
          KeysOf(anim', target)[g].rot = KeysOf(anim, target)[g].rot
    /\ \A g \in DOMAIN KeysOf(anim', target) : KeysOf(anim', target)[g].inter = inter

\* the target of this rotateBond step on obj
BondTargetIs(obj, subEmpty) ==
    IF subEmpty /\ objs[obj].type = "EMPTY"
    THEN last'.obj \in Children(objs, obj)
    ELSE last'.obj = obj

\* C14 as stated: rotateBond(obj, n, vf, vt, f, inter, subEmpty) inserts exactly
\* n rotation keyframes on its target at frames f, f+vf, ..., f+(n-1)*vf, the
\* keyframe at f+i*vf has the target's z-rotation before the call plus i*vt,
\* every keyframe of the target has interpolation inter; the target is a child
\* of obj when subEmpty is true and obj is an EMPTY (obj then receives no
\* keyframe and keeps its rotation), and obj otherwise.
C14_RotateBondKeyframes ==
    [][(last'.op = "rotateBond" /\ last'.ret = "ok") =>
          /\ BondTargetIs(last'.args[1], last'.args[7])
          /\ BondKeys(last'.obj, last'.args[2], last'.args[3], last'.args[4],
                      last'.args[5], last'.args[6])
          /\ last'.obj # last'.args[1] =>
                /\ KeysOf(anim', last'.args[1]) = KeysOf(anim, last'.args[1])
                /\ objs'[last'.args[1]].rot = objs[last'.args[1]].rot]_vars

\* C14 amended: when the frames f, f+vf, ..., f+(n-1)*vf are distinct (vf # 0
\* or n <= 1), rotateBond inserts exactly n rotation keyframes on its target
\* at these frames, the keyframe at f+i*vf has the target's z-rotation before
\* the call plus i*vt, every keyframe of the target has interpolation inter;
\* the target is a child of obj when subEmpty is true and obj is an EMPTY (obj
\* then receives no keyframe, and keeps its rotation if it has no keyframes of
\* its own), and obj otherwise.
C14_RotateBondDistinctFrames ==
    [][(/\ last'.op = "rotateBond"
        /\ last'.ret = "ok"
        /\ (last'.args[3] # 0 \/ last'.args[2] <= 1)) =>
          /\ BondTargetIs(last'.args[1], last'.args[7])
          /\ BondKeys(last'.obj, last'.args[2], last'.args[3], last'.args[4],
                      last'.args[5], last'.args[6])
          /\ last'.obj # last'.args[1] =>
                /\ KeysOf(anim', last'.args[1]) = KeysOf(anim, last'.args[1])
                /\ last'.args[1] \notin DOMAIN anim =>
                      objs'[last'.args[1]].rot = objs[last'.args[1]].rot]_vars

\* rotateBond put two keyframes, two frames apart, on the child of a bond that
\* has keyframes of its own
C14_Witness ==
    /\ last.op = "rotateBond"
    /\ last.ret = "ok"
    /\ last.args[2] >= 2
    /\ last.args[3] = 2
    /\ last.args[7]
    /\ last.obj # last.args[1]
    /\ last.args[1] \in DOMAIN anim
    /\ Cardinality(DOMAIN anim[last.obj]) >= 2


\* the z-rotation object k has at frame f: what its keyframes give there, its
\* own z-rotation if it has none
ZAtFrame(os, an, k, f) ==
    IF k \in DOMAIN an THEN EvalAt(an[k], f)[3] ELSE os[k].rot[3]

\* after this step the keyframes of rotator k of rung i are exactly at f+j*vf,
\* j = 0..2*(n-1), rising from r0 by vt*i a keyframe up to keyframe n-1 and
\* falling by vt*i a keyframe from there on
CoilKeys(k, i, n, vf, vt, f, r0) ==
    /\ k \in DOMAIN anim'
    /\ DOMAIN anim'[k] = {f + j * vf : j \in 0..(2 * (n - 1))}
    /\ \A j \in 0..(n - 1) : anim'[k][f + j * vf].rot[3] = r0 + j * vt * i
    /\ \A j \in (n - 1)..(2 * (n - 1)) :
          anim'[k][f + j * vf].rot[3] = r0 + (2 * (n - 1) - j) * vt * i

\* C15 as stated: coilCollection with uncoil = True is a round trip: for n >= 1
\* every rotator Rotate_<c>_<i> of the skeleton then has keyframes exactly at
\* f + k*vf, k = 0..2*(n-1), earlier animation cleared; its z-rotation at
\* keyframe k <= n-1 is r0 + k*vt*i and at keyframe k >= n-1 is
\* r0 + (2*(n-1)-k)*vt*i, r0 its z-rotation before the call; hence the last
\* keyframe has r0 and rung 0 never rotates.
C15_CoilRoundTrip ==
    [][(/\ last'.op = "coilCollection"
        /\ last'.ret = "ok"
        /\ last'.args[7]
        /\ last'.args[2] >= 1) =>
          \A i \in 0..(NumRungs(objs, last'.args[1]) - 1) :
             /\ Rung(objs, last'.args[1], i) # 0
             /\ CoilKeys(Rung(objs, last'.args[1], i), i, last'.args[2], last'.args[3],
                         last'.args[4], last'.args[5],
                         objs[Rung(objs, last'.args[1], i)].rot[3])]_vars

\* C15 amended: for n >= 1 and distinct frames (vf # 0, or n = 1), after
\* coilCollection with uncoil = True every rotator Rotate_<c>_<i> of the
\* skeleton has keyframes exactly at f + k*vf, k = 0..2*(n-1), earlier
\* animation cleared; its z-rotation at keyframe k <= n-1 is r0 + k*vt*i and at
\* keyframe k >= n-1 is r0 + (2*(n-1)-k)*vt*i, where r0 is the z-rotation the
\* rotator had at frame f before the call (what its earlier keyframes give at
\* f, its z-rotation if it had none); hence the last keyframe has r0 and rung 0
\* never rotates.
C15_CoilRoundTripFromFrame ==
    [][(/\ last'.op = "coilCollection"
        /\ last'.ret = "ok"
        /\ last'.args[7]
        /\ last'.args[2] >= 1
        /\ (last'.args[3] # 0 \/ last'.args[2] = 1)) =>
          \A i \in 0..(NumRungs(objs, last'.args[1]) - 1) :
             /\ Rung(objs, last'.args[1], i) # 0
             /\ CoilKeys(Rung(objs, last'.args[1], i), i, last'.args[2], last'.args[3],
                         last'.args[4], last'.args[5],
                         ZAtFrame(objs, anim, Rung(objs, last'.args[1], i),
                                  last'.args[5]))]_vars

\* coilCollection with uncoil = True and two keyframes a direction has turned
\* rung 1 of a skeleton forth and back
C15_Witness ==
    /\ last.op = "coilCollection"
    /\ last.ret = "ok"
    /\ last.args[7]
    /\ last.args[2] >= 2
    /\ last.args[3] # 0
    /\ Rung(objs, last.args[1], 1) \in DOMAIN anim
    /\ Cardinality(DOMAIN anim[Rung(objs, last.args[1], 1)]) = 2 * last.args[2] - 1
    /\ anim[Rung(objs, last.args[1], 1)][last.args[5] + last.args[3]].rot[3]
          = anim[Rung(objs, last.args[1], 1)][last.args[5]].rot[3] + last.args[4]

====
